---------------------------- MODULE Spec2Model ----------------------------
(***************************************************************************)
(* Model of the media manipulation server (src/main.py): the artifacts of  *)
(* the media root, the pipeline that apply_filter_template runs over them, *)
(* and the validate-then-invoke single-shot operations.                    *)
(*                                                                         *)
(* An artifact name is a record [sep, base, ext]: sep says whether the     *)
(* name contains os.path.sep, ext is its extension as written.  The file   *)
(* system maps every name to a content record; a content records what the  *)
(* file derives from (origin), which request wrote it (by, 0 for a file    *)
(* that was there before) and the stages applied to it.                    *)
(*                                                                         *)
(* Each request keeps a log of what it looked at and ran: its checks, its  *)
(* probes, its engine invocations ("engine") and how each of them exited   *)
(* ("exit" for status 0, "failed" otherwise).  filter_str is the filter    *)
(* expression transform_video has built, as the pieces its format string   *)
(* joins; detail is what a returned error message lists; probed is what    *)
(* ffprobe gave the request (its exit status and the streams it printed).  *)
(***************************************************************************)
EXTENDS Integers, Sequences, FiniteSets, TLC

VARIABLES fs, fs0, pc, req, template, current_file, temp_files, temp_output,
          ci, result, log, filter_str, detail, probed

vars == <<fs, fs0, pc, req, template, current_file, temp_files, temp_output,
          ci, result, log, filter_str, detail, probed>>

Procs == {1, 2}

-----------------------------------------------------------------------------
(* Names and extensions                                                    *)

VIDEO_EXTENSIONS == {".mp4", ".avi", ".mkv", ".mov", ".wmv", ".flv", ".webm"}

AUDIO_EXTENSIONS == {".aac", ".mp3", ".wav", ".ogg", ".flac", ".m4a"}

MkName(sep, base, ext) == [sep |-> sep, base |-> base, ext |-> ext]

\* str.lower() on the extension of a name
Lower(e) ==
  CASE e = ".MP4" -> ".mp4"
    [] e = ".PNG" -> ".png"
    [] OTHER -> e

\* any(name.lower().endswith(ext) for ext in VIDEO_EXTENSIONS)
HasVideoExt(n) == Lower(n.ext) \in VIDEO_EXTENSIONS

\* any(name.lower().endswith(ext) for ext in AUDIO_EXTENSIONS)
HasAudioExt(n) == Lower(n.ext) \in AUDIO_EXTENSIONS

\* os.path.sep in name
HasSep(n) == n.sep

\* f"temp_{len(temp_files)}.mp4"
TempName(k) ==
  MkName(FALSE,
         CASE k = 0 -> "temp_0" [] k = 1 -> "temp_1" [] k = 2 -> "temp_2"
           [] OTHER -> "temp_n",
         ".mp4")

in_mp4 == MkName(FALSE, "in", ".mp4")
in2_mp4 == MkName(FALSE, "in2", ".mp4")
out_mp4 == MkName(FALSE, "out", ".mp4")
out2_mp4 == MkName(FALSE, "out2", ".mp4")
out_txt == MkName(FALSE, "out", ".txt")
out_mkv == MkName(FALSE, "out", ".mkv")
out_mp3 == MkName(FALSE, "out", ".mp3")

\* names with a separator ("../x.mp4"): os.path.join takes them out of the root
up_mp4 == MkName(TRUE, "x", ".mp4")
up_png == MkName(TRUE, "y", ".png")
OUT_MP4 == MkName(FALSE, "OUT", ".MP4")
out_png == MkName(FALSE, "out%d", ".png")
frames_png == MkName(FALSE, "img%d", ".png")
a_aac == MkName(FALSE, "a", ".aac")
ov_png == MkName(FALSE, "ov", ".png")
\* the file tempfile.NamedTemporaryFile creates, in the system's temp directory
tmp_list == MkName(TRUE, "tmp", "")
NoName == MkName(FALSE, "", "")

TempNames == {TempName(0), TempName(1), TempName(2)}

PipeNames == {in_mp4, in2_mp4, out_mp4, out2_mp4, out_txt} \cup TempNames

OpsNames ==
  {up_mp4, up_png, OUT_MP4, out_mkv, out_mp3, out_png, frames_png, a_aac,
   ov_png, tmp_list}

AllNames == PipeNames \cup OpsNames

-----------------------------------------------------------------------------
(* File contents                                                           *)

Absent == [kind |-> "absent", origin |-> "", by |-> 0, applied |-> <<>>]

\* a file that was in the media root before any request
Original(n) == [kind |-> "file", origin |-> n.base, by |-> 0, applied |-> <<>>]

\* os.path.exists
Exists(f, n) == f[n].kind # "absent"

\* what the engine writes to its output when request p runs `stage` on a
\* source of content c; kind is "partial" while it writes, "file" at exit 0
Written(p, stage, c, kind) ==
  [kind |-> kind, origin |-> c.origin, by |-> p,
   applied |-> Append(c.applied, stage)]

-----------------------------------------------------------------------------
(* Filter templates: each group is absent, complete, or present with a     *)
(* nested key missing ("incomplete").                                      *)

GroupStates == {"absent", "complete", "incomplete"}

Templates ==
  [curves : GroupStates, eq : GroupStates, vignette : GroupStates,
   fps : {"absent", "complete"}, noise : GroupStates]

\* the template file does not exist
NoTemplate ==
  [curves |-> "missing", eq |-> "missing", vignette |-> "missing",
   fps |-> "missing", noise |-> "missing"]

\* "k" in template
Has(t, k) == t[k] # "absent"

HasColor_AnyOfThree(t) == Has(t, "curves") \/ Has(t, "eq") \/ Has(t, "vignette")

\* "curves" in template and "eq" in template and "vignette" in template
HasColor(t) == Has(t, "curves") /\ Has(t, "eq") /\ Has(t, "vignette")

\* curves['red'] ... vignette['angle'] all succeed
ColorKeysOK(t) ==
  t.curves = "complete" /\ t.eq = "complete" /\ t.vignette = "complete"

\* noise['strength'], noise['flags'] succeed
NoiseKeysOK(t) == t.noise = "complete"

\* the stages the code runs for a template, in the order it runs them
Plan(t) ==
  (IF HasColor(t) THEN <<"color">> ELSE <<>>)
  \o (IF Has(t, "fps") THEN <<"fps">> ELSE <<>>)
  \o (IF Has(t, "noise") THEN <<"noise">> ELSE <<>>)

-----------------------------------------------------------------------------
(* Events a request leaves in its log                                      *)

Ev(e, stage, src, dst, srcWas, dstWas) ==
  [ev |-> e, stage |-> stage, src |-> src, dst |-> dst,
   srcWas |-> srcWas, dstWas |-> dstWas]

\* a request: the operation and its arguments.  input is the first input
\* name, aux the second (audio, overlay), more the list concatenate_videos
\* takes; num holds the numeric argument, <<>> when it is None or not taken.
Req(op, input, aux, more, output, kind, params, num, position) ==
  [op |-> op, input |-> input, aux |-> aux, more |-> more, output |-> output,
   kind |-> kind, params |-> params, num |-> num, position |-> position]

\* a params dict: n maps the numeric keys it holds to their values,
\* direction and color are "" when the key is not in the dict
Params(n, direction, color) ==
  [n |-> n, direction |-> direction, color |-> color]

NoParams == Params(<<>>, "", "")

Finish(p, r) ==
  /\ pc' = [pc EXCEPT ![p] = "done"]
  /\ result' = [result EXCEPT ![p] = r]

-----------------------------------------------------------------------------
(* apply_filter_template                                                   *)

\* the four validation checks, in the code's order
AFT_Validation(f, r, t) ==
  IF ~Exists(f, r.input) THEN "NotFound"
  ELSE IF t = NoTemplate THEN "TemplateNotFound"
  ELSE IF Exists(f, r.output) THEN "AlreadyExists"
  ELSE IF ~HasVideoExt(r.output) THEN "InvalidExtension"
  ELSE "ok"

AFT_Validate(p) ==
  /\ pc[p] = "validate"
  /\ req[p].op = "apply_filter_template"
  /\ LET v == AFT_Validation(fs, req[p], template[p]) IN
       IF v # "ok"
       THEN /\ Finish(p, v)
            /\ UNCHANGED <<current_file, temp_files>>
       ELSE /\ pc' = [pc EXCEPT ![p] = "color"]
            /\ current_file' = [current_file EXCEPT ![p] = req[p].input]
            /\ temp_files' = [temp_files EXCEPT ![p] = <<>>]
            /\ UNCHANGED result
  /\ UNCHANGED <<fs, fs0, probed, filter_str, detail, req, template, temp_output, ci, log>>

\* subprocess.run(["ffmpeg", "-i", src, ..., dst], check=True) is entered:
\* the engine either fails before it opens its output, or creates (or
\* truncates) the output and starts writing it.
EngineStart(p, stage) ==
  LET dst == TempName(Len(temp_files[p]))
      src == current_file[p]
  IN
  /\ temp_output' = [temp_output EXCEPT ![p] = dst]
  /\ temp_files' = [temp_files EXCEPT ![p] = Append(@, dst)]
  /\ \/ /\ fs[src].kind = "file"
        /\ src # dst
        /\ fs' = [fs EXCEPT ![dst] = Written(p, stage, fs[src], "partial")]
        /\ log' = [log EXCEPT ![p] =
                     Append(@, Ev("engine", stage, src, dst, fs[src], fs[dst]))]
        /\ pc' = [pc EXCEPT ![p] = "engine"]
        /\ UNCHANGED result
     \/ /\ Finish(p, "CalledProcessError")
        /\ log' = [log EXCEPT ![p] =
                     @ \o << Ev("engine", stage, src, dst, Absent, Absent),
                             Ev("failed", stage, src, dst, Absent, Absent) >>]
        /\ UNCHANGED fs
  /\ UNCHANGED <<fs0, probed, filter_str, detail, req, template, current_file, ci>>

NextStage_SkipsFps(stage) ==
  CASE stage = "color" -> "noise"
    [] stage = "fps" -> "noise"
    [] stage = "noise" -> "rename"

NextStage(stage) ==
  CASE stage = "color" -> "fps"
    [] stage = "fps" -> "noise"
    [] stage = "noise" -> "rename"

LastEngine(p) == log[p][Len(log[p])]

LastStage(p) == LastEngine(p).stage

\* the log entry of an engine invocation's exit: "exit" for status 0,
\* "failed" for any other status
Exited(how, e) == Ev(how, e.stage, e.src, e.dst, Absent, Absent)

EngineExit_GoesOn(p) ==
  /\ pc[p] = "engine"
  /\ LET dst == temp_output[p]
         mine == fs[dst].kind = "partial" /\ fs[dst].by = p
     IN
     \/ /\ fs' = IF mine THEN [fs EXCEPT ![dst].kind = "file"] ELSE fs
        /\ current_file' = [current_file EXCEPT ![p] = dst]
        /\ pc' = [pc EXCEPT ![p] = NextStage(LastStage(p))]
        /\ log' = [log EXCEPT ![p] = Append(@, Exited("exit", LastEngine(p)))]
        /\ UNCHANGED result
     \/ /\ pc' = [pc EXCEPT ![p] = NextStage(LastStage(p))]
        /\ log' = [log EXCEPT ![p] = Append(@, Exited("failed", LastEngine(p)))]
        /\ UNCHANGED <<fs, current_file, result>>
  /\ UNCHANGED <<fs0, probed, filter_str, detail, req, template, temp_files, temp_output, ci>>

\* the engine exits: with 0 the output is complete, otherwise what it wrote
\* so far stays behind and CalledProcessError leaves the function
EngineExit(p) ==
  /\ pc[p] = "engine"
  /\ LET dst == temp_output[p]
         mine == fs[dst].kind = "partial" /\ fs[dst].by = p
     IN
     \/ /\ fs' = IF mine THEN [fs EXCEPT ![dst].kind = "file"] ELSE fs
        /\ current_file' = [current_file EXCEPT ![p] = dst]
        /\ pc' = [pc EXCEPT ![p] = NextStage(LastStage(p))]
        /\ log' = [log EXCEPT ![p] = Append(@, Exited("exit", LastEngine(p)))]
        /\ UNCHANGED result
     \/ /\ Finish(p, "CalledProcessError")
        /\ log' = [log EXCEPT ![p] = Append(@, Exited("failed", LastEngine(p)))]
        /\ UNCHANGED <<fs, current_file>>
  /\ UNCHANGED <<fs0, probed, filter_str, detail, req, template, temp_files, temp_output, ci>>

Skip(p, to) ==
  /\ pc' = [pc EXCEPT ![p] = to]
  /\ UNCHANGED <<fs, fs0, probed, filter_str, detail, req, template, current_file, temp_files,
                 temp_output, ci, result, log>>

Raise(p, r) ==
  /\ Finish(p, r)
  /\ UNCHANGED <<fs, fs0, probed, filter_str, detail, req, template, current_file, temp_files,
                 temp_output, ci, log>>

AFT_Color(p) ==
  /\ pc[p] = "color"
  /\ IF HasColor(template[p])
     THEN IF ColorKeysOK(template[p])
          THEN EngineStart(p, "color")
          ELSE Raise(p, "KeyError")
     ELSE Skip(p, "fps")

AFT_Fps(p) ==
  /\ pc[p] = "fps"
  /\ IF Has(template[p], "fps")
     THEN EngineStart(p, "fps")
     ELSE Skip(p, "noise")

AFT_Noise(p) ==
  /\ pc[p] = "noise"
  /\ IF Has(template[p], "noise")
     THEN IF NoiseKeysOK(template[p])
          THEN EngineStart(p, "noise")
          ELSE Raise(p, "KeyError")
     ELSE Skip(p, "rename")

\* os.rename(current_file, output_path): the source must exist; an existing
\* destination is replaced (POSIX) or makes the call raise (Windows)
AFT_Rename(p) ==
  /\ pc[p] = "rename"
  /\ LET src == current_file[p]
         dst == req[p].output
         e   == Ev("rename", "", src, dst, fs[src], fs[dst])
     IN
     /\ log' = [log EXCEPT ![p] = Append(@, e)]
     /\ IF ~Exists(fs, src)
        THEN /\ Finish(p, "OSError")
             /\ UNCHANGED <<fs, ci>>
        ELSE \/ /\ src # dst
                /\ fs' = [fs EXCEPT ![dst] = fs[src], ![src] = Absent]
                /\ pc' = [pc EXCEPT ![p] = "cleanup"]
                /\ ci' = [ci EXCEPT ![p] = 1]
                /\ UNCHANGED result
             \/ /\ src = dst
                /\ pc' = [pc EXCEPT ![p] = "cleanup"]
                /\ ci' = [ci EXCEPT ![p] = 1]
                /\ UNCHANGED <<fs, result>>
             \/ /\ Exists(fs, dst)
                /\ src # dst
                /\ Finish(p, "OSError")
                /\ UNCHANGED <<fs, ci>>
  /\ UNCHANGED <<fs0, probed, filter_str, detail, req, template, current_file, temp_files, temp_output>>

\* one turn of the clean-up loop, then the success message
AFT_Cleanup(p) ==
  /\ pc[p] = "cleanup"
  /\ IF ci[p] <= Len(temp_files[p])
     THEN LET n == temp_files[p][ci[p]] IN
          /\ ci' = [ci EXCEPT ![p] = @ + 1]
          /\ IF Exists(fs, n)
             THEN /\ fs' = [fs EXCEPT ![n] = Absent]
                  /\ log' = [log EXCEPT ![p] =
                               Append(@, Ev("remove", "", n, n, fs[n], fs[n]))]
             ELSE UNCHANGED <<fs, log>>
          /\ UNCHANGED <<pc, result>>
     ELSE /\ Finish(p, "ok")
          /\ UNCHANGED <<fs, ci, log>>
  /\ UNCHANGED <<fs0, probed, filter_str, detail, req, template, current_file, temp_files, temp_output>>

apply_filter_template(p) ==
  \/ AFT_Validate(p)
  \/ AFT_Color(p)
  \/ AFT_Fps(p)
  \/ AFT_Noise(p)
  \/ EngineExit(p)
  \/ AFT_Rename(p)
  \/ AFT_Cleanup(p)

-----------------------------------------------------------------------------
(* Single-shot operations: the checks of each, in the order of its code    *)

POSITION_MAP_KEYS ==
  {"top-left", "top-right", "bottom-left", "bottom-right", "center"}

TransformKinds_AndBlur ==
  {"crop", "scale", "rotate", "flip", "transpose", "pad", "blur"}

TransformKinds == {"crop", "scale", "rotate", "flip", "transpose", "pad"}

TRANSFORM_PARAMS(kind) ==
  CASE kind = "crop" -> <<"x", "y", "width", "height">>
    [] kind = "scale" -> <<"width", "height">>
    [] kind = "rotate" -> <<"angle">>
    [] kind = "flip" -> <<"direction">>
    [] kind = "transpose" -> <<"dir">>
    [] kind = "pad" -> <<"width", "height", "x", "y">>
    [] OTHER -> <<>>

\* k in params
InParams(pr, k) ==
  CASE k = "direction" -> pr.direction # ""
    [] k = "color" -> pr.color # ""
    [] OTHER -> k \in DOMAIN pr.n

\* all(p in params for p in required_params)
HasRequired(pr, kind) ==
  \A i \in 1..Len(TRANSFORM_PARAMS(kind)) : InParams(pr, TRANSFORM_PARAMS(kind)[i])

\* one `if <bad>: return "Error: ..."` line: what it looks at (k), the name
\* it is about, whether it fires, and the error it returns
Chk(k, name, bad, err) == [k |-> k, name |-> name, bad |-> bad, err |-> err]

FirstBad(cs) ==
  IF \E i \in 1..Len(cs) : cs[i].bad
  THEN CHOOSE i \in 1..Len(cs) : cs[i].bad /\ \A j \in 1..(i - 1) : ~cs[j].bad
  ELSE 0

\* the error of the first check that fires, "ok" when none does
Verdict(cs) == IF FirstBad(cs) = 0 THEN "ok" ELSE cs[FirstBad(cs)].err

\* the checks evaluated: all of them up to and including the first that fires
Evaluated(cs) == IF FirstBad(cs) = 0 THEN cs ELSE SubSeq(cs, 1, FirstBad(cs))

CheckEvents(cs) ==
  [i \in 1..Len(Evaluated(cs)) |->
     Ev(cs[i].k, "", cs[i].name, cs[i].name, Absent, Absent)]

trim_video_checks_NoCollision(f, r) ==
  << Chk("sep", r.input, HasSep(r.input), "UnsafeName"),
     Chk("sep", r.output, HasSep(r.output), "UnsafeName"),
     Chk("exists", r.input, ~Exists(f, r.input), "NotFound"),
     Chk("ext", r.output, ~HasVideoExt(r.output), "InvalidExtension") >>

trim_video_checks(f, r) ==
  << Chk("sep", r.input, HasSep(r.input), "UnsafeName"),
     Chk("sep", r.output, HasSep(r.output), "UnsafeName"),
     Chk("exists", r.input, ~Exists(f, r.input), "NotFound"),
     Chk("exists", r.output, Exists(f, r.output), "AlreadyExists"),
     Chk("ext", r.output, ~HasVideoExt(r.output), "InvalidExtension") >>

split_video_checks(f, r) ==
  << Chk("exists", r.input, ~Exists(f, r.input), "NotFound"),
     Chk("range", NoName, r.num[1] <= 0, "InvalidParameter"),
     Chk("sep", r.output, HasSep(r.output), "UnsafeName") >>

images_to_video_checks(f, r) ==
  << Chk("range", NoName, ~(r.num[1] > 0), "InvalidParameter"),
     Chk("ext", r.output, ~HasVideoExt(r.output), "InvalidExtension"),
     Chk("sep", r.output, HasSep(r.output), "UnsafeName"),
     Chk("exists", r.output, Exists(f, r.output), "AlreadyExists") >>

video_to_images_checks(f, r) ==
  << Chk("exists", r.input, ~Exists(f, r.input), "NotFound"),
     Chk("sep", r.output, HasSep(r.output), "UnsafeName"),
     Chk("ext", r.output, Lower(r.output.ext) \notin {".png", ".jpg"},
         "InvalidExtension") >>
  \o (IF r.num # <<>>
      THEN <<Chk("range", NoName, r.num[1] <= 0, "InvalidParameter")>>
      ELSE <<>>)

merge_audio_video_checks(f, r) ==
  << Chk("sep", r.input, HasSep(r.input), "UnsafeName"),
     Chk("sep", r.aux, HasSep(r.aux), "UnsafeName"),
     Chk("sep", r.output, HasSep(r.output), "UnsafeName"),
     Chk("exists", r.input, ~Exists(f, r.input), "NotFound"),
     Chk("exists", r.aux, ~Exists(f, r.aux), "NotFound"),
     Chk("ext", r.aux, ~HasAudioExt(r.aux), "InvalidExtension"),
     Chk("exists", r.output, Exists(f, r.output), "AlreadyExists"),
     Chk("ext", r.output, ~HasVideoExt(r.output), "InvalidExtension") >>

extract_audio_checks(f, r) ==
  << Chk("sep", r.input, HasSep(r.input), "UnsafeName"),
     Chk("sep", r.output, HasSep(r.output), "UnsafeName"),
     Chk("exists", r.input, ~Exists(f, r.input), "NotFound"),
     Chk("exists", r.output, Exists(f, r.output), "AlreadyExists"),
     Chk("ext", r.output, ~HasAudioExt(r.output), "InvalidExtension") >>

\* the two range checks sit in the branches that build the filter string,
\* after the checks of the output
transform_video_checks_DirUpTo4(f, r) ==
  << Chk("exists", r.input, ~Exists(f, r.input), "NotFound"),
     Chk("schema", NoName, r.kind \notin TransformKinds, "UnknownOperationKind"),
     Chk("schema", NoName, ~HasRequired(r.params, r.kind), "MissingParameter"),
     Chk("exists", r.output, Exists(f, r.output), "AlreadyExists"),
     Chk("ext", r.output, ~HasVideoExt(r.output), "InvalidExtension"),
     Chk("range", NoName,
         r.kind = "flip"
           /\ r.params.direction \notin {"horizontal", "vertical"},
         "InvalidParameter"),
     Chk("range", NoName,
         r.kind = "transpose" /\ InParams(r.params, "dir")
           /\ ~(0 <= r.params.n["dir"] /\ r.params.n["dir"] <= 4),
         "InvalidParameter") >>

transform_video_checks(f, r) ==
  << Chk("exists", r.input, ~Exists(f, r.input), "NotFound"),
     Chk("schema", NoName, r.kind \notin TransformKinds, "UnknownOperationKind"),
     Chk("schema", NoName, ~HasRequired(r.params, r.kind), "MissingParameter"),
     Chk("exists", r.output, Exists(f, r.output), "AlreadyExists"),
     Chk("ext", r.output, ~HasVideoExt(r.output), "InvalidExtension"),
     Chk("range", NoName,
         r.kind = "flip"
           /\ r.params.direction \notin {"horizontal", "vertical"},
         "InvalidParameter"),
     Chk("range", NoName,
         r.kind = "transpose" /\ InParams(r.params, "dir")
           /\ ~(0 <= r.params.n["dir"] /\ r.params.n["dir"] <= 3),
         "InvalidParameter") >>

\* opacity is held in tenths: 0 <= opacity <= 1 is 0 <= num <= 10
apply_overlay_checks(f, r) ==
  << Chk("exists", r.input, ~Exists(f, r.input), "NotFound"),
     Chk("exists", r.aux, ~Exists(f, r.aux), "NotFound"),
     Chk("range", NoName, r.position \notin POSITION_MAP_KEYS, "InvalidParameter"),
     Chk("range", NoName, ~(0 <= r.num[1] /\ r.num[1] <= 10), "InvalidParameter"),
     Chk("exists", r.output, Exists(f, r.output), "AlreadyExists"),
     Chk("ext", r.output, ~HasVideoExt(r.output), "InvalidExtension") >>

\* the checks of the output, made before the list file is created
concatenate_videos_checks(f, r) ==
  << Chk("sep", r.output, HasSep(r.output), "UnsafeName"),
     Chk("exists", r.output, Exists(f, r.output), "AlreadyExists"),
     Chk("ext", r.output, ~HasVideoExt(r.output), "InvalidExtension") >>

\* the checks of the loop that writes the list file, two per input
concatenate_list_checks(f, r) ==
  [i \in 1..(2 * Len(r.more)) |->
     LET n == r.more[(i + 1) \div 2] IN
     IF i % 2 = 1
     THEN Chk("sep", n, HasSep(n), "UnsafeName")
     ELSE Chk("exists", n, ~Exists(f, n), "NotFound")]

ChecksOf(f, r) ==
  CASE r.op = "trim_video" -> trim_video_checks(f, r)
    [] r.op = "split_video" -> split_video_checks(f, r)
    [] r.op = "images_to_video" -> images_to_video_checks(f, r)
    [] r.op = "video_to_images" -> video_to_images_checks(f, r)
    [] r.op = "merge_audio_video" -> merge_audio_video_checks(f, r)
    [] r.op = "extract_audio" -> extract_audio_checks(f, r)
    [] r.op = "transform_video" -> transform_video_checks(f, r)
    [] r.op = "apply_overlay" -> apply_overlay_checks(f, r)
    [] r.op = "concatenate_videos" -> concatenate_videos_checks(f, r)

SingleShotOps ==
  {"trim_video", "split_video", "images_to_video", "video_to_images",
   "merge_audio_video", "extract_audio", "transform_video", "apply_overlay",
   "concatenate_videos"}

\* what the returned message names besides its kind: transform_video's
\* f"Error: Missing parameters for {transformation}. Required: {required_params}"
\* prints the whole required list of the kind
MessageDetail_Nothing(r, v) == <<>>

MessageDetail(r, v) ==
  IF v = "MissingParameter" THEN TRANSFORM_PARAMS(r.kind) ELSE <<>>

\* the checks of an operation, then the step its code takes next
Validate(p, op, next) ==
  /\ pc[p] = "validate"
  /\ req[p].op = op
  /\ LET cs == ChecksOf(fs, req[p]) IN
       /\ log' = [log EXCEPT ![p] = @ \o CheckEvents(cs)]
       /\ detail' = [detail EXCEPT ![p] = MessageDetail(req[p], Verdict(cs))]
       /\ IF Verdict(cs) # "ok"
          THEN Finish(p, Verdict(cs))
          ELSE /\ pc' = [pc EXCEPT ![p] = next]
               /\ UNCHANGED result
  /\ UNCHANGED <<fs, fs0, probed, filter_str, req, template, current_file, temp_files,
                 temp_output, ci>>

trim_video(p) == Validate(p, "trim_video", "spawn")

split_video(p) == Validate(p, "split_video", "spawn")

images_to_video(p) == Validate(p, "images_to_video", "spawn")

video_to_images(p) == Validate(p, "video_to_images", "spawn")

transform_video(p) == Validate(p, "transform_video", "compile")

apply_overlay(p) == Validate(p, "apply_overlay", "spawn")

merge_audio_video(p) == Validate(p, "merge_audio_video", "probe")

extract_audio(p) == Validate(p, "extract_audio", "probe")

concatenate_videos(p) == Validate(p, "concatenate_videos", "list")

\* str.format of a number: its decimal text
Str(n) ==
  CASE n = -1 -> "-1" [] n = 0 -> "0" [] n = 1 -> "1" [] n = 2 -> "2"
    [] n = 3 -> "3" [] n = 4 -> "4" [] n = 5 -> "5"

\* "{color}" in a format string given **params: the key has to be in params
FormatRaises(kind, params) == kind = "pad" /\ params.color = ""

FilterStr_CropPositionFirst(kind, params) ==
  LET n == params.n IN
  CASE kind = "crop" ->
         << "crop=", Str(n["x"]), ":", Str(n["y"]), ":",
            Str(n["width"]), ":", Str(n["height"]) >>
    [] kind = "scale" -> << "scale=", Str(n["width"]), ":", Str(n["height"]) >>
    [] kind = "rotate" -> << "rotate=", Str(n["angle"]), "*PI/180" >>
    [] kind = "flip" ->
         IF params.direction = "horizontal" THEN << "hflip" >> ELSE << "vflip" >>
    [] kind = "transpose" -> << "transpose=", Str(n["dir"]) >>
    [] kind = "pad" ->
         << "pad=", Str(n["width"]), ":", Str(n["height"]), ":",
            Str(n["x"]), ":", Str(n["y"]), ":", params.color >>

\* filter_str of transform_video, as the pieces the format strings put
\* together
FilterStr(kind, params) ==
  LET n == params.n IN
  CASE kind = "crop" ->
         << "crop=", Str(n["width"]), ":", Str(n["height"]), ":",
            Str(n["x"]), ":", Str(n["y"]) >>
    [] kind = "scale" -> << "scale=", Str(n["width"]), ":", Str(n["height"]) >>
    [] kind = "rotate" -> << "rotate=", Str(n["angle"]), "*PI/180" >>
    [] kind = "flip" ->
         IF params.direction = "horizontal" THEN << "hflip" >> ELSE << "vflip" >>
    [] kind = "transpose" -> << "transpose=", Str(n["dir"]) >>
    [] kind = "pad" ->
         << "pad=", Str(n["width"]), ":", Str(n["height"]), ":",
            Str(n["x"]), ":", Str(n["y"]), ":", params.color >>

\* the if-chain of transform_video that builds filter_str; the pad branch
\* reads color with params.get("color", "black") and then formats with
\* **params, so KeyError leaves the function when params has no color
transform_compile(p) ==
  /\ pc[p] = "compile"
  /\ LET r == req[p] IN
       IF FormatRaises(r.kind, r.params)
       THEN /\ Finish(p, "KeyError")
            /\ UNCHANGED filter_str
       ELSE /\ filter_str' = [filter_str EXCEPT ![p] = FilterStr(r.kind, r.params)]
            /\ pc' = [pc EXCEPT ![p] = "spawn"]
            /\ UNCHANGED result
  /\ UNCHANGED <<fs, fs0, probed, detail, req, template, current_file, temp_files,
                 temp_output, ci, log>>

\* what ffprobe -show_streams gives: its exit status and, with status 0, the
\* streams of the JSON it prints, each with its codec_type and codec_name
\* (codec_name "" when the stream has no such key)
Stream(type, name) == [codec_type |-> type, codec_name |-> name]

StreamKinds ==
  {Stream("video", "h264"), Stream("audio", "aac"), Stream("audio", "mp3"),
   Stream("audio", "flac"), Stream("audio", "")}

MaxStreams == 2

ProbeOutput(status, streams) == [status |-> status, streams |-> streams]

NotProbed == ProbeOutput(-1, <<>>)

ProbeOutputs ==
  {ProbeOutput(1, <<>>)}
    \cup {ProbeOutput(0, ss) :
            ss \in UNION {[1..n -> StreamKinds] : n \in 0..MaxStreams}}

get_audio_codec_LastAudio(out) ==
  IF out.status # 0 THEN "error"
  ELSE LET audio == {i \in 1..Len(out.streams) :
                       out.streams[i].codec_type = "audio"}
       IN IF audio = {} THEN "none"
          ELSE LET i == CHOOSE k \in audio : \A j \in audio : j <= k
               IN IF out.streams[i].codec_name = "" THEN "unknown"
                  ELSE out.streams[i].codec_name

\* get_audio_codec: "error" when ffprobe exits non-zero, else codec_name
\* ("unknown" when it has none) of the first stream whose codec_type is
\* "audio", else "none"
get_audio_codec(out) ==
  IF out.status # 0 THEN "error"
  ELSE LET audio == {i \in 1..Len(out.streams) :
                       out.streams[i].codec_type = "audio"}
       IN IF audio = {} THEN "none"
          ELSE LET i == CHOOSE k \in audio : \A j \in audio : k <= j
               IN IF out.streams[i].codec_name = "" THEN "unknown"
                  ELSE out.streams[i].codec_name

\* what get_audio_codec can return: a codec name, "none" or "error"
ProbeResults == {get_audio_codec(out) : out \in ProbeOutputs}

\* output_file.lower().endswith('.mp4') and audio_codec not in ['aac', 'mp3']
checkCompatibility_AnyCodec(containerExt, codec) == "ok"

checkCompatibility(containerExt, codec) ==
  IF Lower(containerExt) = ".mp4" /\ codec \notin {"aac", "mp3"}
  THEN "Incompatible"
  ELSE "ok"

\* audio_codec = get_audio_codec(path) and the checks of its result;
\* merge_audio_video also checks it against the container of the output
ProbeStep(p, file, container) ==
  \E out \in ProbeOutputs :
    LET codec == get_audio_codec(out)
        v == IF codec = "none" THEN "NoAudioStream"
             ELSE IF codec = "error" THEN "ProbeFailed"
             ELSE IF container /\ checkCompatibility(req[p].output.ext, codec) # "ok"
                  THEN "CodecIncompatible"
             ELSE "ok"
    IN
    /\ probed' = [probed EXCEPT ![p] = out]
    /\ log' = [log EXCEPT ![p] =
                 Append(@, Ev("probe", codec, file, file, fs[file], Absent))]
    /\ IF v # "ok"
       THEN Finish(p, v)
       ELSE /\ pc' = [pc EXCEPT ![p] = "spawn"]
            /\ UNCHANGED result
    /\ UNCHANGED <<fs, fs0, filter_str, detail, req, template, current_file,
                   temp_files, temp_output, ci>>

\* get_audio_codec(audio_path) and the three checks of its result
merge_probe(p) ==
  /\ pc[p] = "probe"
  /\ req[p].op = "merge_audio_video"
  /\ ProbeStep(p, req[p].aux, TRUE)

\* get_audio_codec(video_path) and the two checks of its result
extract_probe(p) ==
  /\ pc[p] = "probe"
  /\ req[p].op = "extract_audio"
  /\ ProbeStep(p, req[p].input, FALSE)

ListFile(p) == [kind |-> "file", origin |-> "list", by |-> p, applied |-> <<>>]

\* the with-block of concatenate_videos: NamedTemporaryFile(delete=False)
\* creates the list file, the loop checks each input and returns from inside
\* the block at the first bad one
concatenate_write_list(p) ==
  /\ pc[p] = "list"
  /\ LET cs == concatenate_list_checks(fs, req[p]) IN
       /\ fs' = [fs EXCEPT ![tmp_list] = ListFile(p)]
       /\ log' = [log EXCEPT ![p] =
                    Append(@, Ev("create", "", tmp_list, tmp_list, Absent, fs[tmp_list]))
                    \o CheckEvents(cs)]
       /\ IF Verdict(cs) # "ok"
          THEN Finish(p, Verdict(cs))
          ELSE /\ pc' = [pc EXCEPT ![p] = "spawn"]
               /\ UNCHANGED result
  /\ UNCHANGED <<fs0, probed, filter_str, detail, req, template, current_file, temp_files, temp_output, ci>>

\* the file the engine reads first
Source(r) == IF r.op = "concatenate_videos" THEN r.more[1] ELSE r.input

\* os.remove(tmpfile_path), on both paths out of concatenate_videos' try
RemoveList(f, r) ==
  IF r.op = "concatenate_videos" THEN [f EXCEPT ![tmp_list] = Absent] ELSE f

\* subprocess.run(cmd, check=True, ...) of a single-shot operation is entered
SingleShotSpawn(p) ==
  /\ pc[p] = "spawn"
  /\ LET r == req[p]
         src == Source(r)
         dst == r.output
     IN
     \/ /\ fs[src].kind = "file"
        /\ IF r.aux = NoName THEN TRUE ELSE fs[r.aux].kind = "file"
        /\ src # dst
        /\ fs' = [fs EXCEPT ![dst] = Written(p, r.op, fs[src], "partial")]
        /\ log' = [log EXCEPT ![p] =
                     Append(@, Ev("engine", r.op, src, dst, fs[src], fs[dst]))]
        /\ pc' = [pc EXCEPT ![p] = "running"]
        /\ UNCHANGED result
     \/ /\ fs' = RemoveList(fs, r)
        /\ log' = [log EXCEPT ![p] =
                     @ \o << Ev("engine", r.op, src, dst, Absent, Absent),
                             Ev("failed", r.op, src, dst, Absent, Absent) >>]
        /\ Finish(p, "EngineInvocationFailed")
  /\ UNCHANGED <<fs0, probed, filter_str, detail, req, template, current_file, temp_files, temp_output, ci>>

\* the engine exits: the success message, or the except branch's message
SingleShotExit(p) ==
  /\ pc[p] = "running"
  /\ LET r == req[p]
         dst == r.output
         mine == fs[dst].kind = "partial" /\ fs[dst].by = p
     IN
     \/ /\ fs' = RemoveList(IF mine THEN [fs EXCEPT ![dst].kind = "file"] ELSE fs, r)
        /\ log' = [log EXCEPT ![p] = Append(@, Exited("exit", LastEngine(p)))]
        /\ Finish(p, "ok")
     \/ /\ fs' = RemoveList(fs, r)
        /\ log' = [log EXCEPT ![p] = Append(@, Exited("failed", LastEngine(p)))]
        /\ Finish(p, "EngineInvocationFailed")
  /\ UNCHANGED <<fs0, probed, filter_str, detail, req, template, current_file, temp_files,
                 temp_output, ci>>

SingleShot(p) ==
  \/ trim_video(p)
  \/ split_video(p)
  \/ images_to_video(p)
  \/ video_to_images(p)
  \/ transform_video(p)
  \/ apply_overlay(p)
  \/ merge_audio_video(p)
  \/ extract_audio(p)
  \/ concatenate_videos(p)
  \/ transform_compile(p)
  \/ merge_probe(p)
  \/ extract_probe(p)
  \/ concatenate_write_list(p)
  \/ SingleShotSpawn(p)
  \/ SingleShotExit(p)

-----------------------------------------------------------------------------
(* The requests of the single-shot operations                              *)

InNames == {in_mp4, up_mp4}

OutNames == {out_mp4, out_txt, up_mp4, OUT_MP4}

ImageOutNames == {out_png, out_txt, up_png}

AudioOutNames == {out_mp3, a_aac, out_txt}

\* the values a numeric key of params is given
ParamVals(k) == IF k = "dir" THEN {-1, 0, 3, 4} ELSE {1, 2}

NumKeys(kind) ==
  {TRANSFORM_PARAMS(kind)[i] : i \in 1..Len(TRANSFORM_PARAMS(kind))} \ {"direction"}

\* the params dicts given for a kind: any subset of its numeric keys, each
\* with one of its values, and the direction and color keys given or not
ParamChoices(kind) ==
  {Params(n, d, c) :
     n \in UNION {{f \in [S -> -1..4] : \A k \in S : f[k] \in ParamVals(k)} :
                    S \in SUBSET NumKeys(kind)},
     d \in IF kind = "flip" THEN {"", "horizontal", "vertical", "diagonal"} ELSE {""},
     c \in IF kind = "pad" THEN {"", "red"} ELSE {""}}

SingleShotRequests ==
  {Req("trim_video", i, NoName, <<>>, o, "", NoParams, <<>>, "") :
     i \in InNames, o \in OutNames}
  \cup {Req("split_video", i, NoName, <<>>, o, "", NoParams, <<d>>, "") :
          i \in InNames, o \in OutNames, d \in {0, 2}}
  \cup {Req("images_to_video", frames_png, NoName, <<>>, o, "", NoParams, <<d>>, "") :
          o \in OutNames, d \in {0, 2}}
  \cup {Req("video_to_images", i, NoName, <<>>, o, "", NoParams, d, "") :
          i \in InNames, o \in ImageOutNames, d \in {<<>>, <<0>>, <<2>>}}
  \cup {Req("merge_audio_video", i, a_aac, <<>>, o, "", NoParams, <<>>, "") :
          i \in InNames, o \in OutNames \cup {out_mkv}}
  \cup {Req("extract_audio", i, NoName, <<>>, o, "", NoParams, <<>>, "") :
          i \in InNames, o \in AudioOutNames}
  \cup {Req("apply_overlay", i, ov_png, <<>>, o, "", NoParams, <<d>>, pos) :
          i \in InNames, o \in OutNames, d \in {-1, 0, 5, 10, 11},
          pos \in {"center", "middle"}}
  \cup {Req("concatenate_videos", NoName, NoName, m, o, "", NoParams, <<>>, "") :
          m \in {<<in_mp4>>, <<in_mp4, in2_mp4>>, <<up_mp4>>, <<in_mp4, up_mp4>>},
          o \in OutNames}
  \cup UNION {{Req("transform_video", i, NoName, <<>>, o, kind, pr, <<>>, "") :
                 i \in InNames, o \in OutNames, pr \in ParamChoices(kind)} :
              kind \in TransformKinds \cup {"blur"}}

\* the files a single-shot request may find there
OpsPreExisting == {in_mp4, up_mp4, out_mp4, out_png, a_aac, ov_png}

-----------------------------------------------------------------------------
(* One apply_filter_template request against any initial media root        *)

PipeOutputs == {out_mp4, out_txt, TempName(0), TempName(1)}

PreExisting == {in_mp4, out_mp4} \cup TempNames

PipeReq(i, o) ==
  Req("apply_filter_template", i, NoName, <<>>, o, "", NoParams, <<>>, "")

PipeRequests == {PipeReq(in_mp4, o) : o \in PipeOutputs}

InitFs(present) ==
  [n \in AllNames |-> IF n \in present THEN Original(n) ELSE Absent]

Idle ==
  /\ fs0 = fs
  /\ current_file = [p \in Procs |-> in_mp4]
  /\ temp_files = [p \in Procs |-> <<>>]
  /\ temp_output = [p \in Procs |-> TempName(0)]
  /\ ci = [p \in Procs |-> 1]
  /\ result = [p \in Procs |-> "none"]
  /\ log = [p \in Procs |-> <<>>]
  /\ filter_str = [p \in Procs |-> <<>>]
  /\ detail = [p \in Procs |-> <<>>]
  /\ probed = [p \in Procs |-> NotProbed]

InitPipe ==
  /\ \E present \in SUBSET PreExisting : fs = InitFs(present)
  /\ \E r \in PipeRequests : req = [p \in Procs |-> r]
  /\ \E t \in Templates \cup {NoTemplate} : template = [p \in Procs |-> t]
  /\ pc = [p \in Procs |-> IF p = 1 THEN "validate" ELSE "off"]
  /\ Idle

InitOps ==
  /\ \E present \in SUBSET OpsPreExisting :
       fs = InitFs(present \cup {frames_png})
  /\ \E r \in SingleShotRequests : req = [p \in Procs |-> r]
  /\ template = [p \in Procs |-> NoTemplate]
  /\ pc = [p \in Procs |-> IF p = 1 THEN "validate" ELSE "off"]
  /\ Idle

\* one request, of any operation, against any initial media root
Init == InitPipe \/ InitOps

Next == \E p \in Procs : apply_filter_template(p) \/ SingleShot(p)

Spec == Init /\ [][Next]_vars

-----------------------------------------------------------------------------
(* Two apply_filter_template requests, on different inputs and different   *)
(* output names, running concurrently in a media root that holds the two   *)
(* inputs and nothing else                                                 *)

\* the templates with every group whole and at least one stage
ConcTemplates ==
  {t \in Templates :
     /\ \A k \in DOMAIN t : t[k] # "incomplete"
     /\ t.curves = t.eq /\ t.eq = t.vignette
     /\ Plan(t) # <<>>}

InitConc ==
  /\ fs = InitFs({in_mp4, in2_mp4})
  /\ req = [p \in Procs |->
             IF p = 1 THEN PipeReq(in_mp4, out_mp4)
                      ELSE PipeReq(in2_mp4, out2_mp4)]
  /\ template \in [Procs -> ConcTemplates]
  /\ pc = [p \in Procs |-> "validate"]
  /\ Idle

NextConc == \E p \in Procs : apply_filter_template(p)

SpecConc == InitConc /\ [][NextConc]_vars

-----------------------------------------------------------------------------
(* Properties of one pipeline run                                          *)

ValidationErrors ==
  {"UnsafeName", "NotFound", "TemplateNotFound", "AlreadyExists",
   "InvalidExtension", "MissingParameter", "InvalidParameter"}

\* request p is an apply_filter_template call that passed validation and
\* became a pipeline run
IsRun(p) ==
  /\ req[p].op = "apply_filter_template"
  /\ pc[p] \notin {"off", "validate"}
  /\ result[p] \notin ValidationErrors

Ended(p) == pc[p] = "done"

\* the names under which something written by request p is found
WrittenBy(p) == {n \in DOMAIN fs : fs[n].kind # "absent" /\ fs[n].by = p}

\* the names that exist now and did not exist before the request
NewArtifacts == {n \in DOMAIN fs : Exists(fs, n) /\ ~Exists(fs0, n)}

EngineEvents(p) == {i \in 1..Len(log[p]) : log[p][i].ev = "engine"}

\* C1: when a stage's engine invocation exits non-zero, then once the call
\* has ended nothing the run wrote is left (every temporary artifact of the
\* run is deleted), nothing exists under the output name, and the input
\* artifact exists with the content it had.
C1_FailedRunCleansUp ==
  \A p \in Procs :
    (IsRun(p) /\ Ended(p) /\ result[p] = "CalledProcessError") =>
      /\ WrittenBy(p) = {}
      /\ ~Exists(fs, req[p].output)
      /\ fs[req[p].input] = fs0[req[p].input]

\* C2: at every point of a run the output name either does not exist or
\* holds the complete content written by the last stage of the run's plan,
\* and no engine invocation of the run has the output name as destination.
C2_OutputAbsentOrFinal ==
  \A p \in Procs :
    IsRun(p) =>
      /\ \/ ~Exists(fs, req[p].output)
         \/ /\ fs[req[p].output].kind = "file"
            /\ fs[req[p].output].by = p
            /\ Plan(template[p]) # <<>>
            /\ fs[req[p].output].applied = Plan(template[p])
      /\ \A i \in EngineEvents(p) : log[p][i].dst # req[p].output

\* the template holds none of the five groups
NoGroupPresent(t) ==
  ~Has(t, "curves") /\ ~Has(t, "eq") /\ ~Has(t, "vignette")
  /\ ~Has(t, "fps") /\ ~Has(t, "noise")

\* C3: a run whose template holds no group ends rejected as EmptyPipeline,
\* with no engine invocation, nothing under the output name, and the input
\* artifact where it was with the content it had.
C3_EmptyTemplateRejected ==
  \A p \in Procs :
    (IsRun(p) /\ Ended(p) /\ NoGroupPresent(template[p])) =>
      /\ result[p] = "EmptyPipeline"
      /\ EngineEvents(p) = {}
      /\ ~Exists(fs, req[p].output)
      /\ fs[req[p].input] = fs0[req[p].input]

\* C5: after a successful run nothing the run wrote is left outside the
\* output name (zero temporary artifacts), the output name is the one new
\* artifact, and the input artifact still exists.
C5_SuccessLeavesOnlyOutput ==
  \A p \in Procs :
    (IsRun(p) /\ Ended(p) /\ result[p] = "ok") =>
      /\ WrittenBy(p) \subseteq {req[p].output}
      /\ NewArtifacts = {req[p].output}
      /\ Exists(fs, req[p].input)

\* C4: of two runs executing concurrently on different inputs and output
\* names, neither reads, overwrites, renames or deletes an artifact the
\* other run wrote, and a run that ends in success leaves under its output
\* name the result of its own stages applied to its own input.
C4_ConcurrentRunsIsolated ==
  \A p \in Procs :
    /\ \A i \in 1..Len(log[p]) :
         /\ log[p][i].srcWas.by \in {0, p}
         /\ log[p][i].dstWas.by \in {0, p}
    /\ (IsRun(p) /\ Ended(p) /\ result[p] = "ok") =>
         /\ fs[req[p].output].kind = "file"
         /\ fs[req[p].output].by = p
         /\ fs[req[p].output].origin = req[p].input.base
         /\ fs[req[p].output].applied = Plan(template[p])

-----------------------------------------------------------------------------
(* Properties of the validator                                             *)

\* the input artifacts a request declares
InputsOf(r) ==
  CASE r.op = "concatenate_videos" -> {r.more[i] : i \in 1..Len(r.more)}
    [] r.op \in {"merge_audio_video", "apply_overlay"} -> {r.input, r.aux}
    [] OTHER -> {r.input}

\* every artifact name a request references
NamesOf(r) == InputsOf(r) \cup {r.output}

ProbeOrEngineEvents(p) ==
  {i \in 1..Len(log[p]) : log[p][i].ev \in {"probe", "engine"}}

\* the six checks of the validator, as the request violates them in the
\* media root it is made in
ViolatesNameSafety(r) == \E n \in NamesOf(r) : HasSep(n)

ViolatesExistence(r) == \E n \in InputsOf(r) : ~Exists(fs0, n)

ViolatesCollision(r) == Exists(fs0, r.output)

ViolatesExtension(r) ==
  IF r.op = "video_to_images"
  THEN Lower(r.output.ext) \notin {".png", ".jpg"}
  ELSE IF r.op = "extract_audio"
  THEN Lower(r.output.ext) \notin AUDIO_EXTENSIONS
  ELSE Lower(r.output.ext) \notin VIDEO_EXTENSIONS

ViolatesSchema(r) ==
  r.op = "transform_video"
    /\ (r.kind \notin TransformKinds \/ ~HasRequired(r.params, r.kind))

ViolatesRange(r) ==
  CASE r.op \in {"split_video", "images_to_video"} -> r.num[1] <= 0
    [] r.op = "video_to_images" -> r.num # <<>> /\ r.num[1] <= 0
    [] r.op = "apply_overlay" ->
         r.position \notin POSITION_MAP_KEYS \/ r.num[1] < 0 \/ r.num[1] > 10
    [] r.op = "transform_video" ->
         \/ r.kind = "flip" /\ r.params.direction \notin {"", "horizontal", "vertical"}
         \/ r.kind = "transpose" /\ InParams(r.params, "dir")
              /\ r.params.n["dir"] \notin 0..3
    [] OTHER -> FALSE

SchemaError(r) ==
  IF r.kind \notin TransformKinds THEN "UnknownOperationKind" ELSE "MissingParameter"

\* the error of the earliest violated check, in the validator's order
ExpectedError(r) ==
  IF ViolatesNameSafety(r) THEN "UnsafeName"
  ELSE IF ViolatesExistence(r) THEN "NotFound"
  ELSE IF ViolatesCollision(r) THEN "AlreadyExists"
  ELSE IF ViolatesExtension(r) THEN "InvalidExtension"
  ELSE IF ViolatesSchema(r) THEN SchemaError(r)
  ELSE IF ViolatesRange(r) THEN "InvalidParameter"
  ELSE "ok"

ViolationCount(r) ==
  Cardinality({k \in 1..6 :
     \/ k = 1 /\ ViolatesNameSafety(r)
     \/ k = 2 /\ ViolatesExistence(r)
     \/ k = 3 /\ ViolatesCollision(r)
     \/ k = 4 /\ ViolatesExtension(r)
     \/ k = 5 /\ ViolatesSchema(r)
     \/ k = 6 /\ ViolatesRange(r)})

\* C6: a request that references a name with a path separator, as an input
\* or as the output, ends with UnsafeName, and has made no existence query
\* and no probe or engine invocation.
C6_UnsafeNameRejectedFirst ==
  \A p \in Procs :
    (Ended(p) /\ ViolatesNameSafety(req[p])) =>
      /\ result[p] = "UnsafeName"
      /\ \A i \in 1..Len(log[p]) : log[p][i].ev \notin {"exists", "probe", "engine"}

\* C7: a request whose output name holds an artifact when the request is
\* made, and which violates no other check of the validator, ends with
\* AlreadyExists, without any engine invocation, and the artifact under the
\* output name is the one that was there.
C7_OutputNeverOverwritten ==
  \A p \in Procs :
    ( /\ Ended(p)
      /\ ViolatesCollision(req[p])
      /\ ~ViolatesNameSafety(req[p]) /\ ~ViolatesExistence(req[p])
      /\ ~ViolatesExtension(req[p]) /\ ~ViolatesSchema(req[p])
      /\ ~ViolatesRange(req[p])
      /\ req[p].op = "apply_filter_template" => template[p] # NoTemplate ) =>
      /\ result[p] = "AlreadyExists"
      /\ ProbeOrEngineEvents(p) = {}
      /\ fs[req[p].output] = fs0[req[p].output]

\* C8: a request to a single-shot operation that violates two or more of
\* the validator's checks ends with the error of the earliest of them in
\* the order name-safety, input existence, output collision, output
\* extension, schema completeness, parameter range.
C8_EarliestViolatedCheckReported ==
  \A p \in Procs :
    (Ended(p) /\ req[p].op \in SingleShotOps /\ ViolationCount(req[p]) >= 2) =>
      result[p] = ExpectedError(req[p])

\* C9: a request that ends rejected by a validation error, the KeyError of
\* a template group that lacks a nested key included, has invoked neither
\* the transcoding engine nor the probing engine.
C9_NoInvocationBeforeRejection ==
  \A p \in Procs :
    (Ended(p) /\ result[p] \in ValidationErrors \cup {"KeyError"}) =>
      ProbeOrEngineEvents(p) = {}

\* C10: a request that ends rejected by a validator check leaves every
\* file, inside and outside the media root, as it was: the same names
\* exist, with the same content.
C10_RejectionLeavesFilesAlone ==
  \A p \in Procs :
    (Ended(p) /\ result[p] \in ValidationErrors) => fs = fs0


-----------------------------------------------------------------------------
(* Engine failures and the stages of a template                            *)

\* the engine invocations of request p that exited with a non-zero status
EngineFailures(p) == {i \in 1..Len(log[p]) : log[p][i].ev = "failed"}

\* C11: for every operation, single-shot or pipeline stage, a non-zero exit
\* of the engine is returned to the caller as the EngineInvocationFailed
\* error message; it is neither raised as a fault nor swallowed.
C11_EngineFailureReturned ==
  \A p \in Procs :
    (Ended(p) /\ EngineFailures(p) # {}) => result[p] = "EngineInvocationFailed"

\* the stages request p has invoked the engine for, in the order it did
StagesInvoked(p) ==
  LET es == SelectSeq(log[p], LAMBDA e : e.ev = "engine")
  IN [i \in 1..Len(es) |-> es[i].stage]

IsPrefix(s, t) == Len(s) <= Len(t) /\ SubSeq(t, 1, Len(s)) = s

\* an effect group of a template is there: the fused color group when its
\* three keys are, fps and noise when their key is
GroupPresent(t, g) ==
  IF g = "color"
  THEN t.curves # "absent" /\ t.eq # "absent" /\ t.vignette # "absent"
  ELSE t[g] # "absent"

ExpectedStages(t) ==
  SelectSeq(<<"color", "fps", "noise">>, LAMBDA g : GroupPresent(t, g))

AllFive(t) == \A k \in DOMAIN t : t[k] \notin {"absent", "missing"}

OnlyNoise(t) ==
  t.noise \notin {"absent", "missing"}
    /\ \A k \in DOMAIN t \ {"noise"} : t[k] = "absent"

\* C12: the stages a run invokes the engine for are, in order, the color
\* stage, the fps stage and the noise stage, one per group the template has
\* and none for a group it has not: a run never leaves that order, and a run
\* that ends with success has invoked all of them; three stages for a
\* template with all five keys, one for a template with noise only.
C12_StagesFollowTemplate ==
  \A p \in Procs :
    IsRun(p) =>
      /\ IsPrefix(StagesInvoked(p), ExpectedStages(template[p]))
      /\ (Ended(p) /\ result[p] = "ok") =>
           /\ StagesInvoked(p) = ExpectedStages(template[p])
           /\ AllFive(template[p]) => StagesInvoked(p) = <<"color", "fps", "noise">>
           /\ OnlyNoise(template[p]) => StagesInvoked(p) = <<"noise">>

C12_Witness ==
  \E p \in Procs :
    /\ IsRun(p) /\ Ended(p) /\ result[p] = "ok"
    /\ AllFive(template[p])
    /\ StagesInvoked(p) = <<"color", "fps", "noise">>


-----------------------------------------------------------------------------
(* Two requests, each a trim_video or an apply_filter_template, on         *)
(* different inputs and the same output name, which nothing has yet        *)

RaceOps == {"trim_video", "apply_filter_template"}

RaceReq(op, i) ==
  IF op = "trim_video"
  THEN Req("trim_video", i, NoName, <<>>, out_mp4, "", NoParams, <<>>, "")
  ELSE PipeReq(i, out_mp4)

InitRace ==
  /\ fs = InitFs({in_mp4, in2_mp4})
  /\ \E o \in [Procs -> RaceOps] :
       req = [p \in Procs |-> RaceReq(o[p], IF p = 1 THEN in_mp4 ELSE in2_mp4)]
  /\ template \in [Procs -> ConcTemplates]
  /\ pc = [p \in Procs |-> "validate"]
  /\ Idle

NextRace ==
  \E p \in Procs :
    \/ apply_filter_template(p)
    \/ trim_video(p)
    \/ SingleShotSpawn(p)
    \/ SingleShotExit(p)

SpecRace == InitRace /\ [][NextRace]_vars

\* request p has gone past its validation and was let through by it
Passed(p) == pc[p] # "validate" /\ result[p] \notin ValidationErrors

\* C13 (as stated): of two concurrent requests on the same output name,
\* exactly one passes the collision check and the other fails with
\* AlreadyExists, whatever the interleaving.
C13_ExactlyOnePasses ==
  /\ Cardinality({p \in Procs : Passed(p)}) <= 1
  /\ (\A p \in Procs : Ended(p)) =>
       \E p \in Procs :
         /\ Passed(p)
         /\ \A q \in Procs \ {p} : result[q] = "AlreadyExists"

\* C13 (amended): a request whose validation runs while something, complete
\* or partial, is under the output name fails with AlreadyExists, and one
\* whose validation runs while nothing is under it passes; the check looks
\* at the files of that moment only, so both requests pass when both are
\* validated before either has written.
C13_CollisionCheckSeesTheMoment ==
  [][\A p \in Procs :
       (pc[p] = "validate" /\ pc'[p] # "validate") =>
         (result'[p] = "AlreadyExists" <=> Exists(fs, req[p].output))]_vars

C13_Witness ==
  \E p \in Procs : \E q \in Procs \ {p} :
    /\ result[p] = "AlreadyExists"
    /\ Passed(q)
    /\ fs[req[p].output].kind # "absent"
    /\ fs[req[p].output].by = q


-----------------------------------------------------------------------------
(* Single-shot operations: failures, parameters, compiled expressions      *)

\* C14: when the engine invocation of a single-shot operation has failed,
\* nothing is under the output name (which nothing was under before), so
\* the same request made again is not turned down with AlreadyExists.
C14_FailedInvocationLeavesNoOutput ==
  \A p \in Procs :
    ( /\ Ended(p)
      /\ req[p].op \in SingleShotOps
      /\ result[p] = "EngineInvocationFailed"
      /\ ~Exists(fs0, req[p].output) )
    => /\ ~Exists(fs, req[p].output)
       /\ Verdict(ChecksOf(fs, req[p])) # "AlreadyExists"


\* transform_video request p of kind `kind` has been validated, let through,
\* and is past the building of its filter expression
Compiled(p, kind) ==
  /\ req[p].op = "transform_video"
  /\ req[p].kind = kind
  /\ pc[p] \notin {"off", "validate", "compile"}
  /\ result[p] \notin ValidationErrors

\* C15: a pad request that gives width, height, x and y is accepted whether
\* or not it gives color, and its expression is pad=<w>:<h>:<x>:<y>:<c>,
\* where <c> is the color given, or black when none is given.
C15_PadColorDefaultsToBlack ==
  \A p \in Procs :
    Compiled(p, "pad") =>
      LET pr == req[p].params IN
      /\ result[p] # "KeyError"
      /\ filter_str[p] =
           << "pad=", Str(pr.n["width"]), ":", Str(pr.n["height"]), ":",
              Str(pr.n["x"]), ":", Str(pr.n["y"]), ":",
              IF pr.color = "" THEN "black" ELSE pr.color >>


\* the request violates none of the checks that come before the range check
PassesEarlierChecks(r) ==
  /\ ~ViolatesNameSafety(r)
  /\ ~ViolatesExistence(r)
  /\ ~ViolatesCollision(r)
  /\ ~ViolatesExtension(r)
  /\ ~ViolatesSchema(r)

\* a transpose, flip or overlay request whose ranged parameter is outside
\* its range (opacity in tenths)
OutsideRange(r) ==
  \/ /\ r.op = "transform_video" /\ r.kind = "transpose"
     /\ r.params.n["dir"] \notin 0..3
  \/ /\ r.op = "transform_video" /\ r.kind = "flip"
     /\ r.params.direction \notin {"horizontal", "vertical"}
  \/ /\ r.op = "apply_overlay"
     /\ r.num[1] \notin 0..10

\* the same requests with the parameter inside its range, and, for an
\* overlay, a position that there is
InsideRange(r) ==
  \/ /\ r.op = "transform_video" /\ r.kind = "transpose"
     /\ r.params.n["dir"] \in 0..3
  \/ /\ r.op = "transform_video" /\ r.kind = "flip"
     /\ r.params.direction \in {"horizontal", "vertical"}
  \/ /\ r.op = "apply_overlay"
     /\ r.num[1] \in 0..10
     /\ r.position \in {"center", "top-left", "top-right", "bottom-left",
                        "bottom-right"}

\* C16: of the requests that pass the checks before the range check, one
\* with transpose.dir outside [0,3], overlay.opacity outside [0,1] or
\* flip.direction outside {horizontal, vertical} fails with InvalidParameter
\* and the engine is never invoked for it; one with the value inside is let
\* through by the validation.
C16_RangeChecked ==
  \A p \in Procs :
    (pc[p] \notin {"off", "validate"} /\ PassesEarlierChecks(req[p])) =>
      /\ OutsideRange(req[p]) =>
           /\ result[p] = "InvalidParameter"
           /\ ProbeOrEngineEvents(p) = {}
      /\ InsideRange(req[p]) => result[p] \notin ValidationErrors

C16_Witness ==
  \E p \in Procs :
    /\ Ended(p) /\ PassesEarlierChecks(req[p])
    /\ req[p].op = "transform_video" /\ req[p].kind = "transpose"
    /\ req[p].params.n["dir"] = 4
    /\ result[p] = "InvalidParameter"


\* the codecs request p has been told by its probes
Probed(p) ==
  {log[p][i].stage : i \in {j \in 1..Len(log[p]) : log[p][j].ev = "probe"}}

\* the compatibility matrix: the containers it governs, and the codecs each
\* of them takes
Governed == {".mp4"}

Allowed(ext) == {"aac", "mp3"}

\* C17: checkCompatibility(.mp4, flac) is Incompatible and
\* checkCompatibility(.mp4, aac) is ok; for an extension the matrix does not
\* govern it is ok for every codec; and merge_audio_video whose probe has
\* found a codec the output container does not take fails with
\* CodecIncompatible without ever invoking the engine, while one whose probe
\* has found a codec it takes, or whose container is not governed, is not
\* failed for its codec.
C17_CompatibilityChecked ==
  /\ checkCompatibility(".mp4", "flac") = "Incompatible"
  /\ checkCompatibility(".mp4", "aac") = "ok"
  /\ \A e \in VIDEO_EXTENSIONS \ Governed : \A c \in ProbeResults :
       checkCompatibility(e, c) = "ok"
  /\ \A p \in Procs :
       req[p].op = "merge_audio_video" =>
         \A c \in Probed(p) \ {"none", "error"} :
           LET ext == Lower(req[p].output.ext) IN
           IF ext \in Governed /\ c \notin Allowed(ext)
           THEN /\ result[p] = "CodecIncompatible"
                /\ EngineEvents(p) = {}
           ELSE result[p] # "CodecIncompatible"

C17_Witness ==
  \E p \in Procs :
    /\ req[p].op = "merge_audio_video"
    /\ Lower(req[p].output.ext) = ".mp4"
    /\ "flac" \in Probed(p)
    /\ Ended(p)
    /\ result[p] = "CodecIncompatible"


\* the required parameters of a kind that the request does not give, as
\* positions in the registry's list
AbsentRequired(r) ==
  {i \in 1..Len(TRANSFORM_PARAMS(r.kind)) :
     ~InParams(r.params, TRANSFORM_PARAMS(r.kind)[i])}

FirstAbsent(r) ==
  TRANSFORM_PARAMS(r.kind)[CHOOSE i \in AbsentRequired(r) :
                             \A j \in AbsentRequired(r) : i <= j]

\* transform_video request p has come to the required-parameter check: it
\* is validated, its input is there and its kind is registered
AtRequiredCheck(p) ==
  /\ req[p].op = "transform_video"
  /\ pc[p] \notin {"off", "validate"}
  /\ Exists(fs0, req[p].input)
  /\ req[p].kind \in {"crop", "scale", "rotate", "flip", "transpose", "pad"}

\* C18 (as stated): when the required-parameter check of a transform request
\* fails, the error is MissingParameter and names the first absent required
\* parameter, in the registry's order; when all are there the check passes.
C18_NamesFirstAbsent ==
  \A p \in Procs :
    AtRequiredCheck(p) =>
      IF AbsentRequired(req[p]) # {}
      THEN /\ result[p] = "MissingParameter"
           /\ detail[p] = << FirstAbsent(req[p]) >>
      ELSE result[p] # "MissingParameter"

\* C18 (amended): when the required-parameter check of a transform request
\* fails, the error is MissingParameter and lists all the required
\* parameters of the kind in the registry's order, whichever of them are
\* absent; when all are there the check passes.
C18_ListsAllRequired ==
  \A p \in Procs :
    AtRequiredCheck(p) =>
      IF AbsentRequired(req[p]) # {}
      THEN /\ result[p] = "MissingParameter"
           /\ detail[p] = TRANSFORM_PARAMS(req[p].kind)
      ELSE result[p] # "MissingParameter"

C18_Witness ==
  \E p \in Procs :
    /\ AtRequiredCheck(p) /\ Ended(p)
    /\ req[p].kind = "crop"
    /\ AbsentRequired(req[p]) = {4}
    /\ result[p] = "MissingParameter"
    /\ detail[p] = <<"x", "y", "width", "height">>


\* the kinds the transform registry has
RegisteredKinds == {"crop", "scale", "rotate", "flip", "transpose", "pad"}

\* C19: a transform request of a kind the registry has not is rejected, with
\* the schema error UnknownOperationKind whenever its input is there (and
\* with NotFound when it is not): the engine is never invoked for it, no
\* file is created or changed, and it never returns success.
C19_UnknownKindRejected ==
  \A p \in Procs :
    ( /\ req[p].op = "transform_video"
      /\ req[p].kind \notin RegisteredKinds
      /\ pc[p] \notin {"off", "validate"} )
    => /\ result[p] = IF Exists(fs0, req[p].input)
                      THEN "UnknownOperationKind" ELSE "NotFound"
       /\ Ended(p)
       /\ ProbeOrEngineEvents(p) = {}
       /\ fs = fs0

C19_Witness ==
  \E p \in Procs :
    /\ req[p].op = "transform_video"
    /\ req[p].kind = "blur"
    /\ Exists(fs0, req[p].input)
    /\ ~Exists(fs0, req[p].output)
    /\ Ended(p)
    /\ result[p] = "UnknownOperationKind"


\* the expression a kind and its parameter values stand for
Expression(kind, pr) ==
  CASE kind = "crop" ->
         << "crop=", Str(pr.n["width"]), ":", Str(pr.n["height"]), ":",
            Str(pr.n["x"]), ":", Str(pr.n["y"]) >>
    [] kind = "scale" ->
         << "scale=", Str(pr.n["width"]), ":", Str(pr.n["height"]) >>
    [] kind = "rotate" -> << "rotate=", Str(pr.n["angle"]), "*PI/180" >>
    [] kind = "flip" /\ pr.direction = "horizontal" -> << "hflip" >>
    [] kind = "flip" /\ pr.direction = "vertical" -> << "vflip" >>
    [] kind = "transpose" -> << "transpose=", Str(pr.n["dir"]) >>

\* C20: the expression compiled for a transform request is exactly
\* crop=<width>:<height>:<x>:<y>, scale=<width>:<height>,
\* rotate=<angle>*PI/180, hflip or vflip for flip horizontal or vertical,
\* and transpose=<dir>.
C20_ExpressionsCompiled ==
  \A p \in Procs :
    \A kind \in {"crop", "scale", "rotate", "flip", "transpose"} :
      Compiled(p, kind) => filter_str[p] = Expression(kind, req[p].params)

C20_Witness ==
  \E p \in Procs :
    /\ Compiled(p, "crop")
    /\ req[p].params.n["width"] # req[p].params.n["x"]
    /\ EngineEvents(p) # {}
    /\ filter_str[p] = Expression("crop", req[p].params)


-----------------------------------------------------------------------------
(* The chain of stages of one pipeline run                                 *)

\* the engine invocations of request p, in the order it made them
Invocations(p) == SelectSeq(log[p], LAMBDA e : e.ev = "engine")

\* the os.rename calls of request p
Renames(p) == SelectSeq(log[p], LAMBDA e : e.ev = "rename")

\* stage 0 reads the input of the request, stage i+1 reads what stage i
\* wrote, as stage i left it, and no two stages write under the same name
StagesChained(p) ==
  LET es == Invocations(p) IN
  /\ Len(es) >= 1 => es[1].src = req[p].input
  /\ \A i \in 1..(Len(es) - 1) :
       /\ es[i + 1].src = es[i].dst
       /\ es[i + 1].srcWas # Absent =>
            /\ es[i + 1].srcWas.kind = "file"
            /\ es[i + 1].srcWas.by = p
            /\ es[i + 1].srcWas.applied = SubSeq(StagesInvoked(p), 1, i)
  /\ \A i \in 1..Len(es) : \A j \in 1..Len(es) :
       i # j => es[i].dst # es[j].dst

\* what os.rename moves is what the last stage invoked has written
RenamesLastStageOutput(p) ==
  LET es == Invocations(p) IN
  \A k \in 1..Len(Renames(p)) :
    /\ Len(es) >= 1
    /\ Renames(p)[k].src = es[Len(es)].dst
    /\ Renames(p)[k].srcWas.by = p

\* C21: in a pipeline run, stage 0 reads the original input, every stage
\* i+1 reads exactly the temporary artifact stage i wrote, every stage
\* writes a temporary artifact no earlier stage of the run wrote, and the
\* final rename moves the artifact the last executed stage wrote.
C21_StagesChainedAndRenamed ==
  \A p \in Procs :
    IsRun(p) => StagesChained(p) /\ RenamesLastStageOutput(p)


\* C22: the engine is invoked at most once for a single-shot operation and
\* at most once for each stage of a pipeline run; and after an invocation
\* that exited non-zero the request invokes the engine for nothing more and
\* never renames anything to the output name.
C22_InvokedOnceAndStopsAtFailure ==
  \A p \in Procs :
    /\ req[p].op \in SingleShotOps => Len(Invocations(p)) <= 1
    /\ req[p].op = "apply_filter_template" =>
         \A i \in 1..Len(Invocations(p)) : \A j \in 1..Len(Invocations(p)) :
           i # j => Invocations(p)[i].stage # Invocations(p)[j].stage
    /\ \A i \in EngineFailures(p) : \A j \in (i + 1)..Len(log[p]) :
         log[p][j].ev \notin {"engine", "rename"}

C22_Witness ==
  \E p \in Procs :
    /\ IsRun(p) /\ Ended(p)
    /\ AllFive(template[p])
    /\ \E i \in EngineFailures(p) : log[p][i].stage = "color"
    /\ StagesInvoked(p) = <<"color">>
    /\ ~Exists(fs, req[p].output)


-----------------------------------------------------------------------------
(* Probing                                                                 *)

\* the codec of the first stream of type audio, going through the streams in
\* their order ("unknown" when the probe gives that stream no codec name),
\* "none" when there is no such stream
RECURSIVE FirstAudioCodec(_)
FirstAudioCodec(ss) ==
  IF ss = <<>> THEN "none"
  ELSE IF Head(ss).codec_type = "audio"
       THEN IF Head(ss).codec_name = "" THEN "unknown" ELSE Head(ss).codec_name
       ELSE FirstAudioCodec(Tail(ss))

\* what the probe of a request has to answer for the output ffprobe gave
ExpectedProbe(out) ==
  IF out.status # 0 THEN "error" ELSE FirstAudioCodec(out.streams)

\* C23: the probe answers with the codec of the first audio stream in stream
\* order, with NoAudioStream when the streams hold no audio stream, and with
\* ProbeFailed when the probe invocation exits with an error; and
\* merge_audio_video and extract_audio return the NoAudioStream or
\* ProbeFailed error without invoking the transcoding engine.
C23_ProbeFirstAudioStream ==
  /\ \A out \in ProbeOutputs : get_audio_codec(out) = ExpectedProbe(out)
  /\ \A p \in Procs :
       probed[p] # NotProbed =>
         /\ req[p].op \in {"merge_audio_video", "extract_audio"}
         /\ Probed(p) = {ExpectedProbe(probed[p])}
         /\ ExpectedProbe(probed[p]) = "error" =>
              result[p] = "ProbeFailed" /\ EngineEvents(p) = {}
         /\ ExpectedProbe(probed[p]) = "none" =>
              result[p] = "NoAudioStream" /\ EngineEvents(p) = {}
         /\ ExpectedProbe(probed[p]) \notin {"error", "none"} =>
              result[p] \notin {"ProbeFailed", "NoAudioStream"}

C23_Witness ==
  \E p \in Procs :
    /\ req[p].op = "extract_audio"
    /\ probed[p] = ProbeOutput(0, << Stream("video", "h264"), Stream("audio", "mp3") >>)
    /\ Probed(p) = {"mp3"}
    /\ EngineEvents(p) # {}


-----------------------------------------------------------------------------
(* What a pipeline run does to the files that were there before it         *)

\* C24: when apply_filter_template has ended, with success or not, every
\* artifact that was in the media root before the run is still there with
\* the content it had; so is one named as a stage's temporary artifact
\* (temp_0.mp4, temp_1.mp4, temp_2.mp4).
C24_PreExistingArtifactsUntouched ==
  \A p \in Procs :
    (IsRun(p) /\ Ended(p)) =>
      \A n \in DOMAIN fs : Exists(fs0, n) => fs[n] = fs0[n]


-----------------------------------------------------------------------------
(* The color stage and the three keys it is made of                        *)

ColorKeys == {"curves", "eq", "vignette"}

\* the keys of the color group that the template has
ColorKeysThere(t) == {k \in ColorKeys : t[k] # "absent"}

\* some of the three keys, not all
SomeNotAll(t) == ColorKeysThere(t) # {} /\ ColorKeysThere(t) # ColorKeys

\* all three keys, each with the entries the color stage reads
AllWellFormed(t) == \A k \in ColorKeys : t[k] = "complete"

StageSet(p) == {StagesInvoked(p)[i] : i \in 1..Len(StagesInvoked(p))}

\* C25: a run invokes the color stage only for a template that has all
\* three of curves, eq and vignette, and does invoke it for one that has
\* them (well-formed); for a template with some but not all of them it
\* invokes no color stage, ends with no error on account of the incomplete
\* group (an error it ends with is that of a failed engine invocation, of a
\* noise group without its entries, or of the rename), and invokes the fps
\* and noise stages that are there.
C25_ColorStageNeedsAllThree ==
  \A p \in Procs :
    IsRun(p) =>
      LET t == template[p] IN
      /\ "color" \in StageSet(p) => ColorKeysThere(t) = ColorKeys
      /\ (AllWellFormed(t) /\ pc[p] # "color") => "color" \in StageSet(p)
      /\ (SomeNotAll(t) /\ Ended(p)) =>
           /\ "color" \notin StageSet(p)
           /\ t.fps # "absent" => "fps" \in StageSet(p)
           /\ result[p] = "ok" =>
                StagesInvoked(p) =
                  SelectSeq(<<"fps", "noise">>, LAMBDA g : t[g] # "absent")
           /\ result[p] # "ok" =>
                \/ result[p] = "CalledProcessError" /\ EngineFailures(p) # {}
                \/ result[p] = "KeyError" /\ t.noise = "incomplete"
                \/ result[p] = "OSError" /\ Renames(p) # <<>>

C25_Witness ==
  \E p \in Procs :
    /\ IsRun(p) /\ Ended(p) /\ result[p] = "ok"
    /\ ColorKeysThere(template[p]) = {"curves", "eq"}
    /\ StagesInvoked(p) = <<"fps", "noise">>


-----------------------------------------------------------------------------
(* The list file of concatenate_videos                                     *)

\* C26: when concatenate_videos has ended, on whichever path (success,
\* engine failure, or an input name turned down while the list was being
\* written), the list file it created is there no more.
C26_ListFileRemovedOnEveryPath ==
  \A p \in Procs :
    (req[p].op = "concatenate_videos" /\ Ended(p)) => ~Exists(fs, tmp_list)

=============================================================================
